---- MODULE Spec2Model ----
(***************************************************************************)
(* Model of modelfree/lookback.py: LookbackRewardVecWrapper, the lookback  *)
(* reward augmenter that drives a ring of shadow vectorized environments   *)
(* next to the live one.                                                   *)
(*                                                                         *)
(* The simulator, the curried victim and our policy are collaborators of   *)
(* the wrapper; they are modelled as small deterministic functions over    *)
(* integers, with the simulator's reset drawing its state and radius       *)
(* nondeterministically.  A vectorized environment applies a submitted     *)
(* step when it is waited for (the DummyVecEnv discipline, use_dummy).     *)
(***************************************************************************)
EXTENDS Integers, Sequences, FiniteSets, TLC

\* ------------------------------------------------------------------ bounds
MaxK == 2
NumEnvs == 2
MaxOps == 3
SimMod == 3
RMod == 3

\* ------------------------------------------------------- program constants
\* 0.05 in hundredths: rewards are kept in hundredths of a reward unit
LookbackCoef == 5
RewardScale == 100

Lanes == 0 .. (NumEnvs - 1)
Terminal == SimMod - 1
\* what a simulator reset can draw for a lane: a start state and a radius
ResetDraws == { [state |-> 0, radius |-> 1], [state |-> 1, radius |-> 0] }
DrawStates(dr) == [e \in Lanes |-> dr[e].state]
DrawRadii(dr) == [e \in Lanes |-> dr[e].radius]
FirstDraw == [state |-> 0, radius |-> 1]

\* Python's None and a present value
None == << >>
Some(x) == << x >>

VARIABLES
    lookback_num,       \* self.lookback_num
    transparent_params, \* self.transparent_params (set of keys)
    recurrent,          \* whether self._policy carries recurrent state
    phase,              \* the last call made: constructed, reset, stepping
                        \* (step_async), waited (step_wait), failed (raised)
    venv,               \* self.venv: the live pipeline
    lb_dicts,           \* self.lb_dicts: ring of shadow slots (slot ids)
    lb_venv,            \* LookbackTuple.curry / .venv of every slot
    lb_data,            \* LookbackTuple.data of every slot
    _obs,              \* self._obs
    _action,           \* self._action
    _state,            \* self._state
    _new_lb_state,       \* self._new_lb_state
    _dones,             \* self._dones
    ep_lens,            \* self.ep_lens
    returned,           \* what the last reset / step_wait returned
    current_states,     \* step_async's snapshot of the live simulator state
    contrib,            \* per lane, ring indices that added a bonus term
    last_baseline,      \* per slot, the wrapper step at which it was last re-seeded
    steps_since_reset,  \* per lane, wrapper steps since its last episode reset
    nsteps,             \* wrapper steps submitted so far
    nops,               \* reset / step_async calls made so far
    calls,              \* the calls the last step_async issued, in order
    buffers,            \* which array object every cached reference points to
    ctor_args,          \* the arguments __init__ was called with
    policy_loaded,      \* whether __init__ has loaded self._policy
    debug_files,        \* number of debug files __init__ has opened
    raised,             \* the exception the last call raised, or "none"
    rec_args,           \* TrajectoryRecorder: the arguments of __init__
    rec,                \* TrajectoryRecorder: its attributes
    rec_phase,          \* TrajectoryRecorder: the last call made on it
    rec_venv,           \* TrajectoryRecorder: the environment it wraps
    rec_out,            \* TrajectoryRecorder: outcome of the last call
    rec_ops,            \* TrajectoryRecorder: reset / step_async calls so far
    emb_victim,         \* EmbedVictimWrapper: self.victim and its session
    emb_venv,           \* EmbedVictimWrapper: self.venv, the curried pipeline
    emb_closes,         \* EmbedVictimWrapper: times the pipeline was closed
    emb_phase,          \* EmbedVictimWrapper: the last call made on it
    emb_raised,         \* EmbedVictimWrapper: exception of the last call
    emb_ops,            \* EmbedVictimWrapper: calls made so far
    pipe,               \* a pipeline of wrappers over a multi-agent environment
    training,           \* train(): its configuration and how far it has run
    expert              \* ExpertDatasetFromOurFormat: the file read, the arrays built

\* the state of LookbackRewardVecWrapper and of its construction
lbvars == << lookback_num, transparent_params, recurrent, phase, venv, lb_dicts,
             lb_venv, lb_data, _obs, _action, _state, _new_lb_state, _dones,
             ep_lens, returned, current_states, contrib, last_baseline,
             steps_since_reset, nsteps, nops, calls, buffers >>
ctorvars == << ctor_args, policy_loaded, debug_files, raised >>

\* the state of a TrajectoryRecorder and of the environment it wraps
recvars == << rec_args, rec, rec_phase, rec_venv, rec_out, rec_ops >>

\* the state of an EmbedVictimWrapper, its victim and its pipeline
embvars == << emb_victim, emb_venv, emb_closes, emb_phase, emb_raised, emb_ops >>

\* the state of the training script: a pipeline, a run of train(), a dataset
trainvars == << pipe, training, expert >>

vars == << lbvars, ctorvars, recvars, embvars, trainvars >>

\* --------------------------------------------------------------- simulator
\* one lane's physics: our action and the curried victim's action move the state
SimStep(s, a, v) == (s + a + v) % SimMod

\* observation of both agents for a lane in simulator state s with radius r;
\* our agent's row carries the radius after the policy's own features
OurObs(s, r) == << s, r >>
VictimObs(s) == SimMod - 1 - s
Rew(s) == s

\* the curried victim: its action and its transparent 'ff' signal
VictimAct(o) == o % 2
VictimFF(o) == o + 1

\* what a transparent victim adds to a lane's info: one entry per key of
\* transparent_params, its activations ('ff') or its observation ('obs')
TransparentData(o) ==
    [k \in transparent_params |-> IF k = "ff" THEN VictimFF(o) ELSE o]

\* ------------------------------------------------------------- our policy
Cell(o, s) == (s + o + 1) % RMod
Act(o, s) == (o + s) % 2

Zeros == [e \in Lanes |-> 0]
NoMask == [e \in Lanes |-> FALSE]

\* self._policy.predict(obs, state=state, mask=mask): state None starts from
\* the initial state, a masked lane is restarted from the initial state
PredictState(obs, state, mask) ==
    LET st == IF state = None THEN Zeros ELSE state[1]
        mk == IF mask = None THEN NoMask ELSE mask[1]
    IN  [e \in Lanes |-> Cell(obs[e], IF mk[e] THEN 0 ELSE st[e])]

PredictFrom(obs, out) ==
    IF recurrent
    THEN [action |-> [e \in Lanes |-> Act(obs[e], out[e])], state |-> Some(out)]
    ELSE [action |-> [e \in Lanes |-> Act(obs[e], 0)], state |-> None]

Predict(obs, state, mask) == PredictFrom(obs, PredictState(obs, state, mask))

\* _get_truncated_obs: keep the policy's own observation columns
ObsDim == 1
GetTruncatedObs(obs) == [e \in Lanes |-> SubSeq(obs[e], 1, ObsDim)[1]]


\* ------------------------------------------- a vectorized environment
\* A pipeline {simulator + curried victim + flattening}: the live one and
\* every shadow slot.  pending is the submitted, not yet collected step.
\* built_with is the index i every lane's make_env(env_name, seed, i, ...) was
\* called with: it seeds the lane with seed + i and names its monitor log
NewVenv ==
    [state |-> Zeros, radius |-> Zeros, curry_obs |-> Zeros, pending |-> None,
     last_step_obs |-> None, submits |-> 0, waits |-> 0, protocol_ok |-> TRUE,
     built_with |-> [e \in Lanes |-> e]]

\* venv.reset(): every lane restarts from a drawn state and radius
VenvReset(v, rs, rr) ==
    [v EXCEPT !.state = rs, !.radius = rr,
              !.curry_obs = [e \in Lanes |-> VictimObs(rs[e])],
              !.last_step_obs = None]

VenvResetObs(rs, rr) == [e \in Lanes |-> OurObs(rs[e], rr[e])]

\* venv.step_async(actions): the curried victim acts on its stored observation
VenvStepAsync(v, actions) ==
    [v EXCEPT !.pending = Some([ours |-> actions,
                                victim |-> [e \in Lanes |-> VictimAct(v.curry_obs[e])],
                                data |-> [e \in Lanes |-> TransparentData(v.curry_obs[e])]]),
              !.submits = @ + 1,
              !.protocol_ok = @ /\ v.pending = None]

\* venv.step_wait(): the result of the pending step; a lane that reaches the
\* terminal state is restarted at once from the drawn state and radius
VenvNextState(v, e) ==
    IF v.pending = None THEN v.state[e]
    ELSE SimStep(v.state[e], v.pending[1].ours[e], v.pending[1].victim[e])

VenvDone(v, e) == VenvNextState(v, e) = Terminal

VenvStepResult(v, st, rd, ob) ==
    [venv |-> [v EXCEPT !.state = st, !.radius = rd,
                        !.curry_obs = [e \in Lanes |-> VictimObs(st[e])],
                        !.pending = None,
                        !.last_step_obs = Some(ob),
                        !.waits = @ + 1,
                        !.protocol_ok = @ /\ v.pending # None],
     obs |-> ob,
     rewards |-> [e \in Lanes |-> Rew(VenvNextState(v, e))],
     dones |-> [e \in Lanes |-> VenvDone(v, e)],
     infos |-> [e \in Lanes |->
                  IF v.pending = None THEN None ELSE Some(v.pending[1].data[e])]]

VenvStepWait(v, rs, rr) ==
    VenvStepResult(v,
        [e \in Lanes |-> IF VenvDone(v, e) THEN rs[e] ELSE VenvNextState(v, e)],
        [e \in Lanes |-> IF VenvDone(v, e) THEN rr[e] ELSE v.radius[e]],
        [e \in Lanes |-> IF VenvDone(v, e) THEN OurObs(rs[e], rr[e])
                          ELSE OurObs(VenvNextState(v, e), v.radius[e])])

\* env_method('set_state', ...), env_method('set_radius', ...), curry.set_obs
SetState(v, e, s) == [v EXCEPT !.state[e] = s]
SetRadius(v, e, r) == [v EXCEPT !.radius[e] = r]
SetObs(v, e, o) == [v EXCEPT !.curry_obs[e] = o]

\* ------------------------------------------------ LookbackRewardVecWrapper
\* Object identity of the arrays the wrapper keeps references to.  Every
\* predict call returns new arrays; an array is named by the statement that
\* obtained it (and the slot it was obtained for), None is no array at all.
NoBuf == << "none", 0 >>
Buf(site, id) == << site, id >>
StateBuf(site, id) == IF recurrent THEN Buf(site, id) ELSE NoBuf

\* __init__, lines 70-73 and 104: nothing is cached yet
NewBuffers(k) ==
    [lb |-> [id \in 1 .. k |-> [action |-> NoBuf, state |-> NoBuf]],
     _action |-> NoBuf, _state |-> NoBuf, _new_lb_state |-> NoBuf]

\* _process_own_obs, line 174: self._action, self._state = predict(...)
OwnBuffers(b) ==
    [b EXCEPT !._action = Buf("_process_own_obs.action", 0),
              !._state = StateBuf("_process_own_obs.state", 0)]

\* _reset_state_data, lines 196, 204-205: every slot is handed the action and
\* the state that the one predict call returned
ResetBuffers(b) ==
    [b EXCEPT !.lb = [id \in DOMAIN b.lb |->
                        [action |-> Buf("_reset_state_data.action", 0),
                         state |-> StateBuf("_reset_state_data.state", 0)]]]

\* step_async, lines 129-131: self._new_lb_state is the state predict
\* returned, and new_baseline_dict.data['state'] = self._new_lb_state
BaselineBuffers(b, nb) ==
    [b EXCEPT !._new_lb_state = StateBuf("step_async.state", 0),
              !.lb[nb].state = StateBuf("step_async.state", 0)]

\* _process_lb_data, lines 184-187: every slot takes the arrays returned by
\* the predict call made for it
ProcessedBuffers(b) ==
    [b EXCEPT !.lb = [id \in DOMAIN b.lb |->
                        [action |-> Buf("_process_lb_data.action", id),
                         state |-> StateBuf("_process_lb_data.state", id)]]]

\* _reset_state_data with env_idx, lines 210-215: the lane is written in
\* place, so every slot keeps its arrays (state None assigns None)
LaneResetBuffers(b, dns) ==
    IF (\E e \in Lanes : dns[e]) /\ ~recurrent
    THEN [b EXCEPT !.lb = [id \in DOMAIN b.lb |-> [b.lb[id] EXCEPT !.state = NoBuf]]]
    ELSE b

\* The calls step_async issues, in the order of its statements: the callee
\* (0 is the live pipeline self.venv, else a slot) and the lane (-1: all)
Live == 0
AllLanes == 0 - 1
Call(op, slot, lane) == << op, slot, lane >>

\* lines 115-119: curry.set_obs, then set_state lane by lane
ReseedCalls(nb) ==
    << Call("get_obs", Live, AllLanes), Call("set_obs", nb, AllLanes) >>
    \o [i \in 1 .. NumEnvs |-> Call("set_state", nb, i - 1)]

\* lines 121-125: step_async of the slots of self.lb_dicts[1:], in ring order
OtherSlotCalls(ring) ==
    [i \in 1 .. Len(ring) - 1 |-> Call("step_async", ring[i + 1], AllLanes)]

\* (mutation: self.venv.step_async(actions) moved before the loop over the slots)
StepAsyncCallsLiveFirst(ring, nb) ==
    << Call("get_state", Live, AllLanes), Call("rotate", Live, AllLanes) >>
    \o ReseedCalls(nb)
    \o << Call("step_async", Live, AllLanes) >>
    \o OtherSlotCalls(ring)
    \o << Call("predict", nb, AllLanes), Call("step_async", nb, AllLanes),
          Call("ep_lens", Live, AllLanes) >>

\* step_async, lines 110-136
StepAsyncCalls(ring, nb) ==
    << Call("get_state", Live, AllLanes), Call("rotate", Live, AllLanes) >>
    \o ReseedCalls(nb)
    \o OtherSlotCalls(ring)
    \o << Call("predict", nb, AllLanes), Call("step_async", nb, AllLanes),
          Call("step_async", Live, AllLanes), Call("ep_lens", Live, AllLanes) >>

NewData == [action |-> None, state |-> None, reward |-> Zeros,
            info |-> [e \in Lanes |-> None]]

\* train.py, build_env, line 306: [functools.partial(env_fn, i) for i in
\* range(num_env)], every constructor bound to its own index
PartialEnvFns == [e \in Lanes |-> e]

\* _create_lb_dicts, line 91: [lambda: env_fn(i) for i in range(self.num_envs)];
\* the lambdas share the variable i and are called by make_vec_env once the
\* list is complete, when i is num_envs - 1
LambdaEnvFns == [e \in Lanes |-> NumEnvs - 1]

\* make_vec_env(env_fns): lane e is built by calling env_fns[e]
MakeVecEnv(env_fns) == [NewVenv EXCEPT !.built_with = env_fns]

\* _create_lb_dicts, lines 91-103: the pipeline of one slot
NewLbVenv == MakeVecEnv(LambdaEnvFns)

\* (mutation: one slot more than lookback_num, range(self.lookback_num + 1))
CreateLbDictsOneMore(k) == [i \in 1 .. k + 1 |-> i]

\* _create_lb_dicts: one shadow slot per iteration of range(self.lookback_num)
CreateLbDicts(k) == [i \in 1 .. k |-> i]

TransparentChoices == { {"ff"}, {"obs"} }

\* no TrajectoryRecorder and no EmbedVictimWrapper under study
NoRecorder ==
    /\ rec_args = << >>
    /\ rec = << >>
    /\ rec_phase = "absent"
    /\ rec_venv = << >>
    /\ rec_out = << >>
    /\ rec_ops = 0

NoEmbedding ==
    /\ emb_victim = << >>
    /\ emb_venv = << >>
    /\ emb_closes = 0
    /\ emb_phase = "absent"
    /\ emb_raised = "none"
    /\ emb_ops = 0

\* no pipeline, training run or dataset under study
NoTraining ==
    /\ pipe = << >>
    /\ training = << >>
    /\ expert = << >>

Init ==
    /\ lookback_num \in 0 .. MaxK
    /\ transparent_params \in TransparentChoices
    /\ recurrent \in BOOLEAN
    /\ phase = "constructed"
    /\ venv = MakeVecEnv(PartialEnvFns)
    /\ lb_dicts = CreateLbDicts(lookback_num)
    /\ lb_venv = [id \in 1 .. Len(lb_dicts) |-> NewLbVenv]
    /\ lb_data = [id \in 1 .. Len(lb_dicts) |-> NewData]
    /\ _obs = None
    /\ _action = None
    /\ _state = None
    /\ _new_lb_state = None
    /\ _dones = [e \in Lanes |-> FALSE]
    /\ ep_lens = Zeros
    /\ returned = None
    /\ current_states = None
    /\ contrib = [e \in Lanes |-> {}]
    /\ last_baseline = [id \in 1 .. Len(lb_dicts) |-> 0]
    /\ steps_since_reset = Zeros
    /\ nsteps = 0
    /\ nops = 0
    /\ calls = << >>
    /\ buffers = NewBuffers(lookback_num)
    /\ ctor_args = [num_lb |-> lookback_num,
                    transparent_params |-> Some(transparent_params)]
    /\ policy_loaded = TRUE
    /\ debug_files = lookback_num + 1
    /\ raised = "none"
    /\ NoRecorder
    /\ NoEmbedding
    /\ NoTraining

\* (mutation: the slot is reset and left in the state of its own restart, the
\* live observation, radius and state are not copied)
ResetSlotAllOwnRestart(v, live, sdr) ==
    VenvReset(v, [e \in Lanes |-> sdr.state], [e \in Lanes |-> sdr.radius])

\* _reset_state_data(initial_observations, env_idx=None), the body of its loop
\* for one slot: reset the shadow pipeline, reset its cached data, then copy the
\* live curried observation, radius and simulator state into every lane
ResetSlotAll(v, live, sdr) ==
    [VenvReset(v, [e \in Lanes |-> sdr.state], [e \in Lanes |-> sdr.radius])
        EXCEPT !.curry_obs = live.curry_obs,
               !.radius = live.radius,
               !.state = live.state]

ResetDataAll(d, pred) ==
    [action |-> Some(pred.action), state |-> pred.state,
     reward |-> [e \in Lanes |-> d.reward[e] * 0],
     info |-> [e \in Lanes |-> None]]

\* reset(), lines 167-168, given the reset live pipeline and its observations
FinishReset(live, observations, trunc, sdr) ==
    /\ venv' = live
    /\ _obs' = Some(trunc)
    /\ _action' = Some(Predict(trunc, _state, Some(_dones)).action)
    /\ _state' = Predict(trunc, _state, Some(_dones)).state
    /\ lb_venv' = [id \in DOMAIN lb_venv |-> ResetSlotAll(lb_venv[id], live, sdr)]
    /\ lb_data' = [id \in DOMAIN lb_data |->
                     ResetDataAll(lb_data[id], Predict(trunc, None, None))]
    /\ returned' = Some([obs |-> observations])

\* reset(): venv.reset(), _process_own_obs, _reset_state_data
Reset(dr, sdr) ==
    /\ phase \in {"constructed", "reset", "waited"}
    /\ nops < MaxOps
    /\ FinishReset(VenvReset(venv, DrawStates(dr), DrawRadii(dr)),
                   VenvResetObs(DrawStates(dr), DrawRadii(dr)),
                   GetTruncatedObs(VenvResetObs(DrawStates(dr), DrawRadii(dr))),
                   sdr)
    /\ phase' = "reset"
    /\ steps_since_reset' = Zeros
    /\ nops' = nops + 1
    /\ calls' = << >>
    /\ buffers' = ResetBuffers(OwnBuffers(buffers))
    /\ UNCHANGED << lookback_num, transparent_params, recurrent, lb_dicts,
                    _new_lb_state, _dones, ep_lens, current_states, contrib,
                    last_baseline, nsteps, ctorvars, recvars, embvars, trainvars >>

\* (mutation: [self.lb_dicts[-1]] + self.lb_dicts[1:], which drops the first
\* slot and keeps the last one twice)
RotateDuplicating(ring) == << ring[Len(ring)] >> \o SubSeq(ring, 2, Len(ring))

\* step_async, line 112: self.lb_dicts = [self.lb_dicts[-1]] + self.lb_dicts[:-1]
Rotate(ring) == << ring[Len(ring)] >> \o SubSeq(ring, 1, Len(ring) - 1)

\* step_async, line 114: new_baseline_dict = self.lb_dicts[0]
NewBaseline(ring) == ring[1]

\* (mutation: set_state issued for lane 0 only, indices=0 in place of env_idx)
ReseedFirstLane(v, states, curry_obs) ==
    [[v EXCEPT !.curry_obs = curry_obs] EXCEPT !.state[0] = states[0]]

\* step_async, lines 115-119: the new baseline takes the live curried
\* observation and, lane by lane, the snapshot of the live simulator state
Reseed(v, states, curry_obs) ==
    [[v EXCEPT !.curry_obs = curry_obs] EXCEPT !.state = [e \in Lanes |-> states[e]]]

\* (mutation: self.lb_dicts[2:], which leaves the slot at index 1 unsubmitted)
OtherSlotsFromTwo(ring) == { ring[i] : i \in 3 .. Len(ring) }

\* step_async, line 121: the slots of self.lb_dicts[1:]
OtherSlots(ring) == { ring[i] : i \in 2 .. Len(ring) }

\* (mutation: every slot stepped with the action computed for the live
\* environment, self._action)
SubmittedLiveAction(id) == _action[1]

\* step_async, line 125: the action a slot of lb_dicts[1:] is stepped with
SubmittedAction(id) == lb_data[id].action[1]

\* step_async, lines 112-136, given the rotated ring, its new baseline and our
\* policy's prediction from the live observation
SubmitAll(actions, ring, nb, pred) ==
    /\ lb_dicts' = ring
    /\ lb_venv' = [id \in DOMAIN lb_venv |->
          IF id = nb
          THEN VenvStepAsync(Reseed(lb_venv[id], venv.state, venv.curry_obs),
                             pred.action)
          ELSE IF id \in OtherSlots(ring)
               THEN VenvStepAsync(lb_venv[id], SubmittedAction(id))
               ELSE lb_venv[id]]
    /\ _new_lb_state' = pred.state
    /\ lb_data' = [lb_data EXCEPT ![nb].state = pred.state]
    /\ venv' = VenvStepAsync(venv, actions)
    /\ ep_lens' = [e \in Lanes |-> ep_lens[e] + 1]
    /\ last_baseline' = [last_baseline EXCEPT ![nb] = nsteps + 1]
    /\ steps_since_reset' = [e \in Lanes |-> steps_since_reset[e] + 1]
    /\ nsteps' = nsteps + 1
    /\ calls' = StepAsyncCalls(ring, nb)
    /\ buffers' = BaselineBuffers(buffers, nb)

\* step_async(actions); with no slot self.lb_dicts[-1] raises IndexError
StepAsync(actions) ==
    /\ phase \in {"reset", "waited"}
    /\ nops < MaxOps
    /\ nops' = nops + 1
    /\ current_states' = Some(venv.state)
    /\ IF lb_dicts = << >>
       THEN /\ phase' = "failed"
            /\ raised' = "IndexError"
            /\ calls' = << Call("get_state", Live, AllLanes) >>
            /\ UNCHANGED << lookback_num, transparent_params, recurrent, venv,
                            lb_dicts, lb_venv, lb_data, _obs, _action, _state,
                            _new_lb_state, _dones, ep_lens, returned, contrib,
                            last_baseline, steps_since_reset, nsteps, buffers,
                            ctor_args, policy_loaded, debug_files, recvars,
                            embvars, trainvars >>
       ELSE /\ SubmitAll(actions, Rotate(lb_dicts), NewBaseline(Rotate(lb_dicts)),
                          Predict(_obs[1], _new_lb_state, Some(_dones)))
            /\ phase' = "stepping"
            /\ UNCHANGED << lookback_num, transparent_params, recurrent, _obs,
                            _action, _state, _dones, returned, contrib, ctorvars,
                            recvars, embvars, trainvars >>

\* _process_lb_data, the body of its loop for one slot: our policy's next
\* action and state from the slot's own observation and cached state
RecordLbData(d, res, pred) ==
    [action |-> Some(pred.action), state |-> pred.state,
     reward |-> res.rewards,
     info |-> [e \in Lanes |->
                 IF res.infos[e] = None THEN d.info[e] ELSE res.infos[e]]]

ProcessLbData(d, res, mask) ==
    RecordLbData(d, res, Predict(GetTruncatedObs(res.obs), d.state, Some(mask)))

\* (mutation: the whole action array replaced, data['action'] = action)
ResetDataLaneWholeAction(d, pred, e) ==
    [d EXCEPT !.action = Some(pred.action),
              !.state = IF pred.state = None THEN None
                        ELSE Some([d.state[1] EXCEPT ![e] = pred.state[1][e]]),
              !.reward = [d.reward EXCEPT ![e] = d.reward[e] * 0]]

\* _reset_state_data(initial_observations, env_idx), lines 210-215: the cached
\* data of one slot for the lane whose episode ended
ResetDataLane(d, pred, e) ==
    [d EXCEPT !.action = Some([d.action[1] EXCEPT ![e] = pred.action[e]]),
              !.state = IF pred.state = None THEN None
                        ELSE Some([d.state[1] EXCEPT ![e] = pred.state[1][e]]),
              !.reward = [d.reward EXCEPT ![e] = d.reward[e] * 0]]

\* (mutation: the lane's curried observation and radius copied, set_state left out)
ResetSlotLaneNoState(v, live, e) ==
    SetRadius(SetObs(v, e, live.curry_obs[e]), e, live.radius[e])

\* _reset_state_data(initial_observations, env_idx), lines 216-222: the slot's
\* pipeline takes the live curried observation, radius and state of the lane
ResetSlotLane(v, live, e) ==
    SetState(SetRadius(SetObs(v, e, live.curry_obs[e]), e, live.radius[e]),
             e, live.state[e])

\* step_wait, lines 145-148: the lanes in order, each done lane realigned
RECURSIVE ResetDataLanes(_, _, _, _)
ResetDataLanes(d, pred, dns, e) ==
    IF e >= NumEnvs THEN d
    ELSE ResetDataLanes(IF dns[e] THEN ResetDataLane(d, pred, e) ELSE d,
                        pred, dns, e + 1)

RECURSIVE ResetSlotLanes(_, _, _, _)
ResetSlotLanes(v, live, dns, e) ==
    IF e >= NumEnvs THEN v
    ELSE ResetSlotLanes(IF dns[e] THEN ResetSlotLane(v, live, e) ELSE v,
                        live, dns, e + 1)

\* step_wait, line 144: self.ep_lens *= ~np.array(self._dones)
ZeroDone(lens, dns) == [e \in Lanes |-> IF dns[e] THEN lens[e] * 0 ELSE lens[e] * 1]

\* (mutation: an off-by-one slice, self.lb_dicts[:self.ep_lens[env_idx] + 1])
ValidLbDictsOneMore(ring, len) ==
    SubSeq(ring, 1, IF len + 1 < Len(ring) THEN len + 1 ELSE Len(ring))

\* step_wait, line 149: valid_lb_dicts = self.lb_dicts[:self.ep_lens[env_idx]]
ValidLbDicts(ring, len) ==
    SubSeq(ring, 1, IF len < Len(ring) THEN len ELSE Len(ring))

Abs(x) == IF x < 0 THEN 0 - x ELSE x

\* (mutation: only the first valid slot adds its distance)
EnvDiffRewardFirst(valid, data, victim_info, e) ==
    IF valid = << >> \/ "ff" \notin transparent_params THEN 0
    ELSE Abs(victim_info["ff"] - data[Head(valid)].info[e][1]["ff"])

\* step_wait, lines 150-161: the sum over the valid slots of the norm of the
\* difference of the 'ff' activations; the 'obs' difference is computed and
\* dropped
RECURSIVE EnvDiffReward(_, _, _, _)
EnvDiffReward(valid, data, victim_info, e) ==
    IF valid = << >> \/ "ff" \notin transparent_params THEN 0
    ELSE Abs(victim_info["ff"] - data[Head(valid)].info[e][1]["ff"])
         + EnvDiffReward(Tail(valid), data, victim_info, e)

\* ring indices (from 0) of the slots that add a term to a lane's bonus
Contributors(valid) ==
    IF "ff" \in transparent_params THEN { i - 1 : i \in 1 .. Len(valid) } ELSE {}

\* step_wait(), lines 144-163, given the live result, our prediction from
\* it, the prediction from the initial state and the processed shadow results
FinishStepWait(live, own, fresh, slots, processed) ==
    LET dns == live.dones
        lens == ZeroDone(ep_lens, dns)
    IN  /\ venv' = live.venv
        /\ _dones' = dns
        /\ _obs' = Some(GetTruncatedObs(live.obs))
        /\ _action' = Some(own.action)
        /\ _state' = own.state
        /\ lb_venv' = [id \in DOMAIN lb_venv |->
                         ResetSlotLanes(slots[id], live.venv, dns, 0)]
        /\ lb_data' = [id \in DOMAIN lb_data |->
                         ResetDataLanes(processed[id], fresh, dns, 0)]
        /\ ep_lens' = lens
        /\ contrib' = [e \in Lanes |->
                         Contributors(ValidLbDicts(lb_dicts, ep_lens'[e]))]
        /\ returned' =
              Some([obs |-> live.obs,
                    rewards |-> [e \in Lanes |->
                       RewardScale * live.rewards[e]
                       + LookbackCoef * EnvDiffReward(ValidLbDicts(lb_dicts, ep_lens'[e]),
                                                      lb_data', live.infos[e][1], e)],
                    dones |-> dns,
                    infos |-> live.infos])
        /\ steps_since_reset' = [e \in Lanes |->
                                   IF dns[e] THEN 0 ELSE steps_since_reset[e]]
        /\ buffers' = LaneResetBuffers(ProcessedBuffers(OwnBuffers(buffers)), dns)

\* step_wait(), lines 139-142, given the live and the shadow step results
CollectStepWait(live, lb_res) ==
    FinishStepWait(live,
                   Predict(GetTruncatedObs(live.obs), _state, Some(live.dones)),
                   Predict(GetTruncatedObs(live.obs), None, None),
                   [id \in DOMAIN lb_venv |-> lb_res[id].venv],
                   [id \in DOMAIN lb_data |->
                      ProcessLbData(lb_data[id], lb_res[id], live.dones)])

\* step_wait()
\* (a draw is used only by a lane that ends its episode: the others take the first)
StepWait(dr, sdr) ==
    /\ phase = "stepping"
    /\ \A e \in Lanes : ~VenvDone(venv, e) => dr[e] = FirstDraw
    /\ (\A id \in DOMAIN lb_venv : \A e \in Lanes : ~VenvDone(lb_venv[id], e))
          => sdr = FirstDraw
    /\ CollectStepWait(VenvStepWait(venv, DrawStates(dr), DrawRadii(dr)),
                       [id \in DOMAIN lb_venv |->
                          VenvStepWait(lb_venv[id], [e \in Lanes |-> sdr.state],
                                       [e \in Lanes |-> sdr.radius])])
    /\ phase' = "waited"
    /\ calls' = << >>
    /\ UNCHANGED << lookback_num, transparent_params, recurrent, lb_dicts,
                    _new_lb_state, current_states, last_baseline, nsteps, nops,
                    ctorvars, recvars, embvars, trainvars >>

\* the caller: reset first, then step_async / step_wait in turn, reset between steps
ActionSpace == {0, 1}

Next ==
    \/ \E dr \in [Lanes -> ResetDraws], sdr \in ResetDraws : Reset(dr, sdr)
    \/ \E actions \in [Lanes -> ActionSpace] : StepAsync(actions)
    \/ \E dr \in [Lanes -> ResetDraws], sdr \in ResetDraws : StepWait(dr, sdr)

Spec == Init /\ [][Next]_vars

\* ------------------------------------------------------------ construction
\* Before __init__ has run: the arguments are chosen, no attribute is set, no
\* policy is loaded, no slot exists and no debug file is open.
Unconstructed ==
    /\ phase = "unconstructed"
    /\ lookback_num = 0
    /\ transparent_params = {}
    /\ venv = MakeVecEnv(PartialEnvFns)
    /\ lb_dicts = << >>
    /\ lb_venv = << >>
    /\ lb_data = << >>
    /\ _obs = None
    /\ _action = None
    /\ _state = None
    /\ _new_lb_state = None
    /\ _dones = [e \in Lanes |-> FALSE]
    /\ ep_lens = Zeros
    /\ returned = None
    /\ current_states = None
    /\ contrib = [e \in Lanes |-> {}]
    /\ last_baseline = << >>
    /\ steps_since_reset = Zeros
    /\ nsteps = 0
    /\ nops = 0
    /\ calls = << >>
    /\ buffers = NewBuffers(0)
    /\ policy_loaded = FALSE
    /\ debug_files = 0
    /\ raised = "none"

CtorInit ==
    /\ ctor_args \in [num_lb : 0 .. MaxK,
                       transparent_params : {None} \cup { Some(t) : t \in TransparentChoices }]
    /\ recurrent \in BOOLEAN
    /\ Unconstructed
    /\ NoRecorder
    /\ NoEmbedding
    /\ NoTraining

\* (mutation: the check of line 63 left out)
AcceptsAnyParams(tp) == FALSE

\* __init__, line 63: if transparent_params is None
RejectsParams(tp) == tp = None

ParamsOf(tp) == IF tp = None THEN {} ELSE tp[1]

\* __init__, lines 65-80: the attributes, the policy, the slots, the debug files
FinishInit(k, tp) ==
    /\ transparent_params' = ParamsOf(tp)
    /\ policy_loaded' = TRUE
    /\ lb_dicts' = CreateLbDicts(k)
    /\ lb_venv' = [id \in 1 .. Len(lb_dicts') |-> NewLbVenv]
    /\ lb_data' = [id \in 1 .. Len(lb_dicts') |-> NewData]
    /\ last_baseline' = [id \in 1 .. Len(lb_dicts') |-> 0]
    /\ buffers' = NewBuffers(Len(lb_dicts'))
    /\ debug_files' = k + 1
    /\ phase' = "constructed"
    /\ UNCHANGED raised

\* __init__: line 61 sets lookback_num, line 63 raises ValueError without
\* transparent_params, before anything else is done
Construct ==
    /\ phase = "unconstructed"
    /\ lookback_num' = ctor_args.num_lb
    /\ IF RejectsParams(ctor_args.transparent_params)
       THEN /\ raised' = "ValueError"
            /\ phase' = "failed"
            /\ UNCHANGED << transparent_params, policy_loaded, lb_dicts, lb_venv,
                            lb_data, last_baseline, buffers, debug_files >>
       ELSE FinishInit(ctor_args.num_lb, ctor_args.transparent_params)
    /\ UNCHANGED << ctor_args, recurrent, venv, _obs, _action, _state,
                    _new_lb_state, _dones, ep_lens, returned, current_states,
                    contrib, steps_since_reset, nsteps, nops, calls, recvars,
                    embvars, trainvars >>

CtorNext == Construct \/ Next

CtorSpec == CtorInit /\ [][CtorNext]_vars

\* ------------------------------------------------------ TrajectoryRecorder
\* common/utils.py: the recorder around a multi-agent vectorized environment.
\* Arrays are indexed [agent][lane], infos [lane][agent]; a dict is a function
\* from its keys.
NumAgents == 2
MaxRecOps == 4
Agents == 0 .. (NumAgents - 1)

EmptyDict == [k \in {} |-> << >>]

\* d[key].append(val) on a defaultdict(list)
DictAppend(d, key, val) ==
    [k \in DOMAIN d \cup {key} |->
        IF k = key THEN (IF k \in DOMAIN d THEN Append(d[k], val) ELSE << val >>)
        ELSE d[k]]

\* for key, val in items.items(): d[key].append(val)
AppendItems(d, items) ==
    [k \in DOMAIN d \cup DOMAIN items |->
        IF k \in DOMAIN items
        THEN (IF k \in DOMAIN d THEN Append(d[k], items[k]) ELSE << items[k] >>)
        ELSE d[k]]

RECURSIVE SumSeq(_)
SumSeq(q) == IF q = << >> THEN 0 ELSE Head(q) + SumSeq(Tail(q))

\* the wrapped environment: a lane's state moves with agent 0's action, ends
\* its episode in the terminal state and restarts at once
RecStart(e) == (e + 1) % 2
RecObs(a, st) == 2 * st + a
RecReward(a, st) == st + a + 1
RecInfo(a, st) == [k \in {"ff"} |-> st + 2 * a]

RecNewVenv ==
    [state |-> Zeros, pending |-> None,
     episode |-> [e \in Lanes |-> << >>], finished |-> << >>]

RecVenvReset(v) ==
    [v EXCEPT !.state = [e \in Lanes |-> RecStart(e)], !.pending = None]

RecVenvObs(v) == [a \in Agents |-> [e \in Lanes |-> RecObs(a, v.state[e])]]

RecVenvStepAsync(v, actions) == [v EXCEPT !.pending = Some(actions)]

RecVenvNext(v, e) == SimStep(v.state[e], v.pending[1][0][e], 0)
RecVenvDone(v, e) == RecVenvNext(v, e) = Terminal
RecVenvAfter(v, e) == IF RecVenvDone(v, e) THEN RecStart(e) ELSE RecVenvNext(v, e)

\* what step_wait of the wrapped environment returns
RecVenvResult(v) ==
    [obs |-> [a \in Agents |-> [e \in Lanes |-> RecObs(a, RecVenvAfter(v, e))]],
     rewards |-> [a \in Agents |-> [e \in Lanes |-> RecReward(a, RecVenvNext(v, e))]],
     dones |-> [e \in Lanes |-> RecVenvDone(v, e)],
     infos |-> [e \in Lanes |-> [a \in Agents |-> RecInfo(a, RecVenvNext(v, e))]]]

\* one step of lane e as the environment saw it: the observation the step was
\* taken from, the actions, the rewards and the infos, per agent
RecVenvStepOf(v, e) ==
    [observations |-> [a \in Agents |-> RecObs(a, v.state[e])],
     actions |-> [a \in Agents |-> v.pending[1][a][e]],
     rewards |-> [a \in Agents |-> RecReward(a, RecVenvNext(v, e))],
     ff |-> [a \in Agents |-> RecInfo(a, RecVenvNext(v, e))["ff"]]]

\* the episodes that end in this step, in lane order
RECURSIVE RecVenvFinishing(_, _)
RecVenvFinishing(v, e) ==
    IF e >= NumEnvs THEN << >>
    ELSE (IF RecVenvDone(v, e)
          THEN << [lane |-> e, steps |-> Append(v.episode[e], RecVenvStepOf(v, e))] >>
          ELSE << >>)
         \o RecVenvFinishing(v, e + 1)

RecVenvStepWait(v) ==
    [state |-> [e \in Lanes |-> RecVenvAfter(v, e)],
     pending |-> None,
     episode |-> [e \in Lanes |->
                    IF RecVenvDone(v, e) THEN << >>
                    ELSE Append(v.episode[e], RecVenvStepOf(v, e))],
     finished |-> v.finished \o RecVenvFinishing(v, 0)]

\* the arguments a recorder is built with
AgentIndexChoices ==
    { << "none", << >> >>, << "int", << 0 >> >>, << "int", << 1 >> >>,
      << "list", << 0, 1 >> >>, << "list", << 1 >> >> }
EnvKeyChoices ==
    { None, Some({"rewards"}), Some({"observations", "actions"}),
      Some({"rewards", "bogus"}) }
InfoKeyChoices == { None, Some({"ff"}), Some({"ff", "missing"}) }

UnbuiltRecorder ==
    [agent_indices |-> None, env_keys |-> None, info_keys |-> None,
     traj_dicts |-> << >>, full_traj_dicts |-> << >>,
     prev_obs |-> None, actions |-> None]

NoOutcome ==
    [call |-> "none", raised |-> "none", given |-> None, returned |-> None,
     from_env |-> None, filter |-> None]

RecInit ==
    /\ rec_args \in [agent_indices : AgentIndexChoices, env_keys : EnvKeyChoices,
                      info_keys : InfoKeyChoices]
    /\ rec = UnbuiltRecorder
    /\ rec_phase = "unconstructed"
    /\ rec_venv = RecNewVenv
    /\ rec_out = NoOutcome
    /\ rec_ops = 0
    /\ ctor_args = [num_lb |-> 0, transparent_params |-> None]
    /\ recurrent = FALSE
    /\ Unconstructed
    /\ NoEmbedding
    /\ NoTraining

\* __init__, lines 212-215: agent_indices None records every agent, an int
\* that agent; no branch assigns self.agent_indices for a list
AgentIndicesOf(arg) ==
    IF arg[1] = "none" THEN Some([i \in 1 .. NumAgents |-> i - 1])
    ELSE IF arg[1] = "int" THEN Some(arg[2])
    ELSE None

\* __init__: lines 219-221 read self.agent_indices, AttributeError when unset
RecConstruct ==
    /\ rec_phase = "unconstructed"
    /\ IF AgentIndicesOf(rec_args.agent_indices) = None
       THEN /\ rec' = [rec EXCEPT !.env_keys = rec_args.env_keys,
                                   !.info_keys = rec_args.info_keys]
            /\ rec_phase' = "failed"
            /\ rec_out' = [NoOutcome EXCEPT !.call = "__init__",
                                            !.raised = "AttributeError"]
       ELSE /\ rec' =
                 [agent_indices |-> AgentIndicesOf(rec_args.agent_indices),
                  env_keys |-> rec_args.env_keys,
                  info_keys |-> rec_args.info_keys,
                  traj_dicts |->
                     [d \in 1 .. Len(AgentIndicesOf(rec_args.agent_indices)[1]) |->
                        [e \in Lanes |-> EmptyDict]],
                  full_traj_dicts |->
                     [d \in 1 .. Len(AgentIndicesOf(rec_args.agent_indices)[1]) |->
                        EmptyDict],
                  prev_obs |-> None, actions |-> None]
            /\ rec_phase' = "constructed"
            /\ rec_out' = [NoOutcome EXCEPT !.call = "__init__"]
    /\ UNCHANGED << rec_args, rec_venv, rec_ops, lbvars, ctorvars, embvars, trainvars >>

\* reset, lines 235-238
RecReset ==
    /\ rec_phase \in {"constructed", "reset", "waited"}
    /\ rec_ops < MaxRecOps
    /\ rec_venv' = RecVenvReset(rec_venv)
    /\ rec' = [rec EXCEPT !.prev_obs = Some(RecVenvObs(rec_venv'))]
    /\ rec_out' = [NoOutcome EXCEPT !.call = "reset",
                                    !.returned = Some(RecVenvObs(rec_venv')),
                                    !.from_env = Some(RecVenvObs(rec_venv'))]
    /\ rec_phase' = "reset"
    /\ rec_ops' = rec_ops + 1
    /\ UNCHANGED << rec_args, lbvars, ctorvars, embvars, trainvars >>

\* the caller's joint action: agent a plays (choice + a) mod 2 in every lane
JointActions(choice) == [a \in Agents |-> [e \in Lanes |-> (choice[e] + a) % 2]]

\* step_async, lines 225-227
RecStepAsync(actions) ==
    /\ rec_phase \in {"reset", "waited"}
    /\ rec_ops < MaxRecOps
    /\ rec' = [rec EXCEPT !.actions = Some(actions)]
    /\ rec_venv' = RecVenvStepAsync(rec_venv, actions)
    /\ rec_out' = [NoOutcome EXCEPT !.call = "step_async", !.given = Some(actions)]
    /\ rec_phase' = "stepping"
    /\ rec_ops' = rec_ops + 1
    /\ UNCHANGED << rec_args, lbvars, ctorvars, embvars, trainvars >>

\* _filter_dict(d, keys), given the keys of d: line 185 returns d verbatim for
\* keys None; else line 188 calls keys.intersect, which a set does not have
\* (AttributeError), so lines 189-193 are never reached
FilterDict(present, keys) ==
    IF keys = None
    THEN [keys |-> keys, present |-> present, ok |-> TRUE, res |-> present,
          warned |-> FALSE]
    ELSE [keys |-> keys, present |-> present, ok |-> FALSE, res |-> {},
          warned |-> FALSE]

\* lines 264-271: what one (agent, lane) iteration appends to its accumulator
ItemsOf(env_data, infos, info_res, a, e) ==
    [k \in DOMAIN env_data \cup info_res |->
        IF k \in DOMAIN env_data THEN env_data[k][a][e] ELSE infos[e][a][k]]

\* line 274: agent_dicts[env_idx]['rewards'] on a defaultdict(list)
WithRewards(acc) ==
    IF "rewards" \in DOMAIN acc THEN acc
    ELSE [k \in DOMAIN acc \cup {"rewards"} |-> IF k = "rewards" THEN << >> ELSE acc[k]]

\* (mutation: the lane's accumulator kept after its episode was consolidated)
RecordLaneKeeping(acc, full, items, done) ==
    IF done
    THEN [acc |-> AppendItems(acc, items),
          full |-> AppendItems(
                      DictAppend(full, "episode_returns",
                                 << SumSeq(WithRewards(AppendItems(acc, items))["rewards"]) >>),
                      WithRewards(AppendItems(acc, items)))]
    ELSE [acc |-> AppendItems(acc, items), full |-> full]

\* lines 264-281 for one (agent, lane): append the step; on done record the
\* episode return, consolidate every field and renew the lane's accumulator
RecordLane(acc, full, items, done) ==
    IF done
    THEN [acc |-> EmptyDict,
          full |-> AppendItems(
                      DictAppend(full, "episode_returns",
                                 << SumSeq(WithRewards(AppendItems(acc, items))["rewards"]) >>),
                      WithRewards(AppendItems(acc, items)))]
    ELSE [acc |-> AppendItems(acc, items), full |-> full]

\* the lanes of one recorded agent, in order
RECURSIVE RecordLanes(_, _, _, _, _, _, _)
RecordLanes(accs, full, env_data, infos, info_res, a, e) ==
    IF e >= NumEnvs THEN [accs |-> accs, full |-> full]
    ELSE RecordLanes(
            [accs EXCEPT ![e] =
                RecordLane(accs[e], full, ItemsOf(env_data, infos[1], info_res, a, e),
                           infos[2][e]).acc],
            RecordLane(accs[e], full, ItemsOf(env_data, infos[1], info_res, a, e),
                       infos[2][e]).full,
            env_data, infos, info_res, a, e + 1)

\* record_timestep_data, lines 252-281.  _filter_dict of the environment data
\* is called once, that of the infos in every iteration, first for the first
\* recorded agent and lane 0 after that iteration appended its environment data
RecordTimestepData(r, env_data, env_f, infos, dones, info_f) ==
    IF ~env_f.ok
    THEN [ok |-> FALSE, traj_dicts |-> r.traj_dicts,
          full_traj_dicts |-> r.full_traj_dicts, filter |-> env_f]
    ELSE IF ~info_f.ok
    THEN [ok |-> FALSE,
          traj_dicts |->
             [r.traj_dicts EXCEPT ![1][0] =
                 AppendItems(@, ItemsOf(env_data, infos, {}, r.agent_indices[1][1], 0))],
          full_traj_dicts |-> r.full_traj_dicts, filter |-> info_f]
    ELSE [ok |-> TRUE,
          traj_dicts |->
             [d \in DOMAIN r.traj_dicts |->
                 RecordLanes(r.traj_dicts[d], r.full_traj_dicts[d], env_data,
                             << infos, dones >>, info_f.res,
                             r.agent_indices[1][d], 0).accs],
          full_traj_dicts |->
             [d \in DOMAIN r.traj_dicts |->
                 RecordLanes(r.traj_dicts[d], r.full_traj_dicts[d], env_data,
                             << infos, dones >>, info_f.res,
                             r.agent_indices[1][d], 0).full],
          filter |-> info_f]

\* step_wait, lines 229-233, given the environment's result and the outcome
\* of record_timestep_data
FinishRecStepWait(res, rtd) ==
    /\ rec' = [rec EXCEPT !.traj_dicts = rtd.traj_dicts,
                          !.full_traj_dicts = rtd.full_traj_dicts,
                          !.prev_obs = IF rtd.ok THEN Some(res.obs) ELSE @]
    /\ rec_phase' = IF rtd.ok THEN "waited" ELSE "failed"
    /\ rec_out' = [NoOutcome EXCEPT
                      !.call = "step_wait",
                      !.raised = IF rtd.ok THEN "none" ELSE "AttributeError",
                      !.returned = IF rtd.ok THEN Some(res) ELSE None,
                      !.from_env = Some(res),
                      !.filter = Some(rtd.filter)]

\* (mutation: the observations the step returned are recorded)
RecordedObservationsAfter(r, res) == res.obs

\* step_wait, line 231: record_timestep_data is given self.prev_obs, which
\* line 232 replaces by the returned observations only afterwards
RecordedObservations(r, res) == r.prev_obs[1]

RecStepWait ==
    /\ rec_phase = "stepping"
    /\ rec_venv' = RecVenvStepWait(rec_venv)
    /\ FinishRecStepWait(
          RecVenvResult(rec_venv),
          RecordTimestepData(
             rec,
             [k \in {"observations", "actions", "rewards"} \cap
                    FilterDict({"observations", "actions", "rewards"}, rec.env_keys).res |->
                 IF k = "observations"
                 THEN RecordedObservations(rec, RecVenvResult(rec_venv))
                 ELSE IF k = "actions" THEN rec.actions[1]
                 ELSE RecVenvResult(rec_venv).rewards],
             FilterDict({"observations", "actions", "rewards"}, rec.env_keys),
             RecVenvResult(rec_venv).infos,
             RecVenvResult(rec_venv).dones,
             FilterDict(DOMAIN RecVenvResult(rec_venv).infos[0][rec.agent_indices[1][1]],
                        rec.info_keys)))
    /\ UNCHANGED << rec_args, rec_ops, lbvars, ctorvars, embvars, trainvars >>

RecNext ==
    \/ RecConstruct
    \/ RecReset
    \/ \E choice \in [Lanes -> ActionSpace] : RecStepAsync(JointActions(choice))
    \/ RecStepWait

RecSpec == RecInit /\ [][RecNext]_vars

\* ------------------------------------------------------ EmbedVictimWrapper
\* train.py: the wrapper that curries the victim into the pipeline.  A victim
\* is a model with a TensorFlow session, or one built from a policy without
\* one (common/utils.py: ConstantPolicy, RandomPolicy pass sess=None and
\* PolicyToModel takes its session from the policy).
MaxEmbOps == 3

\* __init__, lines 35-39
EmbInit ==
    /\ emb_victim \in [sess : {"session", "None"}, closes : {0}]
    /\ emb_venv = NewVenv
    /\ emb_closes = 0
    /\ emb_phase = "constructed"
    /\ emb_raised = "none"
    /\ emb_ops = 0
    /\ ctor_args = [num_lb |-> 0, transparent_params |-> None]
    /\ recurrent = FALSE
    /\ Unconstructed
    /\ NoRecorder
    /\ NoTraining

\* reset, lines 41-42
EmbReset(dr) ==
    /\ emb_phase \in {"constructed", "reset", "waited"}
    /\ emb_ops < MaxEmbOps
    /\ emb_venv' = VenvReset(emb_venv, DrawStates(dr), DrawRadii(dr))
    /\ emb_phase' = "reset"
    /\ emb_ops' = emb_ops + 1
    /\ UNCHANGED << emb_victim, emb_closes, emb_raised, lbvars, ctorvars, recvars, trainvars >>

\* step_async, inherited: handed on to the curried pipeline
EmbStepAsync(actions) ==
    /\ emb_phase \in {"reset", "waited"}
    /\ emb_ops < MaxEmbOps
    /\ emb_venv' = VenvStepAsync(emb_venv, actions)
    /\ emb_phase' = "stepping"
    /\ emb_ops' = emb_ops + 1
    /\ UNCHANGED << emb_victim, emb_closes, emb_raised, lbvars, ctorvars, recvars, trainvars >>

\* step_wait, lines 44-45
EmbStepWait(dr) ==
    /\ emb_phase = "stepping"
    /\ \A e \in Lanes : ~VenvDone(emb_venv, e) => dr[e] = FirstDraw
    /\ emb_venv' = VenvStepWait(emb_venv, DrawStates(dr), DrawRadii(dr)).venv
    /\ emb_phase' = "waited"
    /\ UNCHANGED << emb_victim, emb_closes, emb_raised, emb_ops, lbvars, ctorvars,
                    recvars, trainvars >>

\* close, lines 47-49: self.victim.sess.close() raises AttributeError on a
\* victim whose sess is None, and super().close() is then not reached
EmbClose ==
    /\ emb_phase \in {"constructed", "reset", "stepping", "waited"}
    /\ IF emb_victim.sess = "None"
       THEN /\ emb_raised' = "AttributeError"
            /\ emb_phase' = "failed"
            /\ UNCHANGED << emb_victim, emb_closes >>
       ELSE /\ emb_victim' = [emb_victim EXCEPT !.closes = @ + 1]
            /\ emb_closes' = emb_closes + 1
            /\ emb_phase' = "closed"
            /\ UNCHANGED emb_raised
    /\ UNCHANGED << emb_venv, emb_ops, lbvars, ctorvars, recvars, trainvars >>

EmbNext ==
    \/ \E dr \in [Lanes -> ResetDraws] : EmbReset(dr)
    \/ \E actions \in [Lanes -> ActionSpace] : EmbStepAsync(actions)
    \/ \E dr \in [Lanes -> ResetDraws] : EmbStepWait(dr)
    \/ EmbClose

EmbSpec == EmbInit /\ [][EmbNext]_vars

\* ---------------------------------------------------- pipelines of wrappers
\* train.py composes wrappers over a multi-agent vectorized environment: an
\* environment of n agents takes a tuple of n actions and returns tuples of n
\* observations and rewards, slot i at position i + 1.  CurryVecEnv fixes one
\* slot to a policy, FlattenSingletonVecEnv turns one slot into a plain
\* single-agent environment.
MaxAgents == 3
MaxPipeOps == 2
VictimActions == {2, 3}

InsertAt(seq, k, x) == SubSeq(seq, 1, k) \o << x >> \o SubSeq(seq, k + 1, Len(seq))
RemoveAt(seq, k) == SubSeq(seq, 1, k) \o SubSeq(seq, k + 2, Len(seq))

\* the environment under the wrappers: what slot i observes and earns after
\* the joint action
PipeEnvObs(actions) == [i \in 1 .. Len(actions) |-> 10 * (i - 1) + actions[i]]
PipeEnvRewards(actions) == [i \in 1 .. Len(actions) |-> 5 * (i - 1) + actions[i]]

\* CurryVecEnv.step_async: the fixed policy's action is inserted at its slot
CurryStepAsync(actions, agent_idx, victim_action) ==
    InsertAt(actions, agent_idx, victim_action)

\* CurryVecEnv.step_wait: the fixed slot is taken out of a returned tuple
CurryStepWait(values, agent_idx) == RemoveAt(values, agent_idx)

\* (mutation: the victim curried at slot 0 whatever victim_index is)
EmbAgentIdxFirst(victim_index) == 0

\* EmbedVictimWrapper.__init__, line 37: CurryVecEnv(multi_env, self.victim,
\* agent_idx=victim_index)
EmbAgentIdx(victim_index) == victim_index

\* (mutation: an environment of any number of slots is flattened)
FlattenAcceptsAny(slots) == TRUE

\* FlattenSingletonVecEnv.__init__: the environment must have exactly one slot
FlattenAccepts(slots) == slots = 1

NoStep == [given |-> None, multi_actions |-> None, victim_action |-> None,
           inner_actions |-> None, inner_obs |-> None, inner_rewards |-> None,
           multi_obs |-> None, multi_rewards |-> None, returned |-> None]

PipeInit ==
    /\ pipe \in [agents : 1 .. MaxAgents, stage : {"multi"},
                 victim_index : {None}, agent_idx : {None}, flatten_on : {None},
                 raised : {"none"}, last : {NoStep}, steps : {0}]
    /\ training = << >>
    /\ expert = << >>
    /\ ctor_args = [num_lb |-> 0, transparent_params |-> None]
    /\ recurrent = FALSE
    /\ Unconstructed
    /\ NoRecorder
    /\ NoEmbedding

\* the multi-agent environment at the top of the pipeline exposes one slot per
\* agent that has not been curried
PipeSlots(p) == IF p.agent_idx = None THEN p.agents ELSE p.agents - 1

\* EmbedVictimWrapper(multi_env, victim, victim_index), lines 35-39
PipeEmbed(victim_index) ==
    /\ pipe.stage = "multi"
    /\ pipe.agent_idx = None
    /\ victim_index \in 0 .. pipe.agents - 1
    /\ pipe' = [pipe EXCEPT !.victim_index = Some(victim_index),
                            !.agent_idx = Some(EmbAgentIdx(victim_index)),
                            !.last = NoStep]
    /\ UNCHANGED << training, expert, lbvars, ctorvars, recvars, embvars >>

\* FlattenSingletonVecEnv(multi_venv)
PipeFlatten ==
    /\ pipe.stage = "multi"
    /\ pipe' = [pipe EXCEPT
                  !.flatten_on = Some(PipeSlots(pipe)),
                  !.stage = IF FlattenAccepts(PipeSlots(pipe)) THEN "flat" ELSE "failed",
                  !.raised = IF FlattenAccepts(PipeSlots(pipe)) THEN "none"
                             ELSE "ConfigurationError"]
    /\ UNCHANGED << training, expert, lbvars, ctorvars, recvars, embvars >>

\* one step through the pipeline, given the actions handed to its multi-agent
\* top and the joint action that reaches the environment
PipeStepThrough(given, multi_actions, victim_action, inner_actions) ==
    [given |-> Some(given),
     multi_actions |-> Some(multi_actions),
     victim_action |-> victim_action,
     inner_actions |-> Some(inner_actions),
     inner_obs |-> Some(PipeEnvObs(inner_actions)),
     inner_rewards |-> Some(PipeEnvRewards(inner_actions)),
     multi_obs |-> Some(IF pipe.agent_idx = None THEN PipeEnvObs(inner_actions)
                        ELSE CurryStepWait(PipeEnvObs(inner_actions), pipe.agent_idx[1])),
     multi_rewards |-> Some(IF pipe.agent_idx = None THEN PipeEnvRewards(inner_actions)
                            ELSE CurryStepWait(PipeEnvRewards(inner_actions),
                                               pipe.agent_idx[1])),
     returned |-> None]

\* FlattenSingletonVecEnv.step_wait hands on the only slot's observation and
\* reward; a multi-agent pipeline hands on the tuples
PipeReturn(last) ==
    [last EXCEPT !.returned =
        IF pipe.stage = "flat"
        THEN Some([obs |-> last.multi_obs[1][1], rewards |-> last.multi_rewards[1][1]])
        ELSE Some([obs |-> last.multi_obs[1], rewards |-> last.multi_rewards[1]])]

\* step_async(actions) then step_wait() on the top of the pipeline; a
\* flattened pipeline is given the action of its only slot
PipeStep(actions, victim_action) ==
    /\ pipe.stage \in {"multi", "flat"}
    /\ pipe.steps < MaxPipeOps
    /\ pipe.agent_idx = None => victim_action = None
    /\ pipe.agent_idx # None => victim_action # None
    /\ pipe' = [pipe EXCEPT
                  !.steps = @ + 1,
                  !.last = PipeReturn(PipeStepThrough(
                              IF pipe.stage = "flat" THEN actions[1] ELSE actions,
                              actions, victim_action,
                              IF pipe.agent_idx = None THEN actions
                              ELSE CurryStepAsync(actions, pipe.agent_idx[1],
                                                  victim_action[1])))]
    /\ UNCHANGED << training, expert, lbvars, ctorvars, recvars, embvars >>

PipeNext ==
    \/ \E victim_index \in 0 .. MaxAgents - 1 : PipeEmbed(victim_index)
    \/ PipeFlatten
    \/ \E actions \in [1 .. PipeSlots(pipe) -> ActionSpace],
          victim_action \in {None} \cup { Some(v) : v \in VictimActions } :
          PipeStep(actions, victim_action)

PipeSpec == PipeInit /\ [][PipeNext]_vars

\* ------------------------------------------------------------------ train()
\* train.py: train() builds the environment, embeds the victim, flattens the
\* pipeline and hands it to the training function, whose learn() calls the
\* callback of _stable once per update.
MaxInterval == 3
MaxMul == 2
MaxCallbacks == 4

TrainInit ==
    /\ training \in
          [victim_type : {"none", "zoo"}, victim_index : {0, 1},
           env_agents : 1 .. MaxAgents, checkpoint_interval : 1 .. MaxInterval,
           callback_mul : 1 .. MaxMul, stage : {"start"}, our_idx : {None},
           slots : {0}, curried : {<< >>}, flatten_on : {None}, raised : {"none"},
           update : {0}, last_checkpoint : {0}, checkpoints : {<< >>},
           last_call : {None}, final_saves : {0}]
    /\ pipe = << >>
    /\ expert = << >>
    /\ ctor_args = [num_lb |-> 0, transparent_params |-> None]
    /\ recurrent = FALSE
    /\ Unconstructed
    /\ NoRecorder
    /\ NoEmbedding

\* build_env, lines 294-297
OurIdx(victim_type, victim_index) ==
    IF victim_type = "none" THEN 0 ELSE 1 - victim_index

\* (mutation: the assertions on num_agents left out)
AgentsAssertedAlways(victim_type, num_agents) == TRUE

\* build_env, lines 308-311: one agent without a victim, two with one
AgentsAsserted(victim_type, num_agents) ==
    IF victim_type = "none" THEN num_agents = 1 ELSE num_agents = 2

\* build_env, line 415 of train()
BuildEnv ==
    /\ training.stage = "start"
    /\ training' =
          IF AgentsAsserted(training.victim_type, training.env_agents)
          THEN [training EXCEPT
                  !.stage = "built",
                  !.our_idx = Some(OurIdx(training.victim_type, training.victim_index)),
                  !.slots = training.env_agents]
          ELSE [training EXCEPT !.stage = "failed", !.raised = "AssertionError"]
    /\ UNCHANGED << pipe, expert, lbvars, ctorvars, recvars, embvars >>

\* multi_wrappers and maybe_embed_victim, lines 416-417: only with a victim is
\* an EmbedVictimWrapper put around the environment (lines 347, 361-362); the
\* monitors and noise wrappers keep the slots as they are
MaybeEmbedVictim ==
    /\ training.stage = "built"
    /\ training' =
          IF training.victim_type # "none"
          THEN [training EXCEPT
                  !.stage = "embedded",
                  !.curried = Append(@, EmbAgentIdx(training.victim_index)),
                  !.slots = @ - 1]
          ELSE [training EXCEPT !.stage = "embedded"]
    /\ UNCHANGED << pipe, expert, lbvars, ctorvars, recvars, embvars >>

\* FlattenSingletonVecEnv(multi_venv), line 419
Flatten ==
    /\ training.stage = "embedded"
    /\ training' =
          [training EXCEPT
              !.flatten_on = Some(training.slots),
              !.stage = IF FlattenAccepts(training.slots) THEN "flat" ELSE "failed",
              !.raised = IF FlattenAccepts(training.slots) THEN "none"
                         ELSE "ConfigurationError"]
    /\ UNCHANGED << pipe, expert, lbvars, ctorvars, recvars, embvars >>

\* callback, line 132: if step - checkpoint_interval > last_checkpoint
SavesCheckpoint(step, checkpoint_interval, last_checkpoint) ==
    step - checkpoint_interval > last_checkpoint

\* callback, lines 129-142, at step = locals[callback_key] * callback_mul
CallbackAt(step) ==
    IF SavesCheckpoint(step, training.checkpoint_interval, training.last_checkpoint)
    THEN [training EXCEPT
            !.checkpoints = Append(@, step),
            !.last_checkpoint = step,
            !.last_call = Some([step |-> step, since |-> training.last_checkpoint,
                                saved |-> TRUE, returned |-> TRUE])]
    ELSE [training EXCEPT
            !.last_call = Some([step |-> step, since |-> training.last_checkpoint,
                                saved |-> FALSE, returned |-> TRUE])]

\* model.learn(...), line 144: one more update, at whose end the callback runs
Callback ==
    /\ training.stage \in {"flat", "learning"}
    /\ training.update < MaxCallbacks
    /\ training' = [CallbackAt((training.update + 1) * training.callback_mul)
                      EXCEPT !.update = training.update + 1, !.stage = "learning"]
    /\ UNCHANGED << pipe, expert, lbvars, ctorvars, recvars, embvars >>

\* _stable, lines 145-147: learn() has returned, the final model is saved
FinishLearn ==
    /\ training.stage \in {"flat", "learning"}
    /\ training' = [training EXCEPT !.final_saves = @ + 1, !.stage = "learned"]
    /\ UNCHANGED << pipe, expert, lbvars, ctorvars, recvars, embvars >>

\* single_venv.close(), line 426
TrainClose ==
    /\ training.stage = "learned"
    /\ training' = [training EXCEPT !.stage = "closed"]
    /\ UNCHANGED << pipe, expert, lbvars, ctorvars, recvars, embvars >>

TrainNext ==
    \/ BuildEnv
    \/ MaybeEmbedVictim
    \/ Flatten
    \/ Callback
    \/ FinishLearn
    \/ TrainClose

TrainSpec == TrainInit /\ [][TrainNext]_vars

\* ------------------------------------------------ ExpertDatasetFromOurFormat
\* train.py: the trajectories saved by a TrajectoryRecorder, one array per
\* episode under every key, are flattened into the arrays GAIL expects.
MaxEpisodes == 3
MaxEpLen == 3

\* a saved rewards array of the given length
RewardsArray(len) == [t \in 1 .. len |-> 1]

RECURSIVE Concatenate(_)
Concatenate(arrays) ==
    IF arrays = << >> THEN << >> ELSE Head(arrays) \o Concatenate(Tail(arrays))

ExpertInit ==
    /\ expert \in
          [rewards : UNION { [1 .. n -> { RewardsArray(len) : len \in 0 .. MaxEpLen }] :
                             n \in 1 .. MaxEpisodes },
           loaded : {FALSE}, episode_starts : {None}, flat_rewards : {None}]
    /\ pipe = << >>
    /\ training = << >>
    /\ ctor_args = [num_lb |-> 0, transparent_params |-> None]
    /\ recurrent = FALSE
    /\ Unconstructed
    /\ NoRecorder
    /\ NoEmbedding

\* __init__, lines 175-177: ep_starts = [True] + [False] * (ep_len - 1); a list
\* times a negative number is the empty list
EpStarts(ep_len) == << TRUE >> \o [t \in 1 .. ep_len - 1 |-> FALSE]

\* __init__, lines 173-182: one ep_starts array per episode of 'rewards', then
\* every key and the episode starts concatenated
LoadExpert ==
    /\ ~expert.loaded
    /\ expert' =
          [expert EXCEPT
              !.loaded = TRUE,
              !.episode_starts =
                  Some(Concatenate([i \in 1 .. Len(expert.rewards) |->
                                       EpStarts(Len(expert.rewards[i]))])),
              !.flat_rewards = Some(Concatenate(expert.rewards))]
    /\ UNCHANGED << pipe, training, lbvars, ctorvars, recvars, embvars >>

ExpertNext == LoadExpert

ExpertSpec == ExpertInit /\ [][ExpertNext]_vars

\* ------------------------------------------------------------------ claims

\* ring index (from 0) of every position of the ring: the lookback offset of
\* the slot held there
RingIndices == { i - 1 : i \in 1 .. Len(lb_dicts) }

\* C1 (as stated): the shadow pool always holds exactly lookback_num + 1 slots.
C1_PoolOfKPlusOne == Len(lb_dicts) = lookback_num + 1

\* C1 (amended): after construction and after any sequence of reset,
\* step_async and step_wait the shadow pool holds exactly lookback_num slots,
\* each with its pipeline and its cached data.
C1_PoolOfK ==
    /\ Len(lb_dicts) = lookback_num
    /\ DOMAIN lb_venv = 1 .. lookback_num
    /\ DOMAIN lb_data = 1 .. lookback_num

C1_Witness ==
    /\ phase = "waited"
    /\ nsteps = 2
    /\ lookback_num = 2
    /\ Len(lb_dicts) = 2

\* the ring holds every constructed slot exactly once
RingIsPermutation ==
    /\ { lb_dicts[i] : i \in 1 .. Len(lb_dicts) } = 1 .. lookback_num
    /\ \A i, j \in 1 .. Len(lb_dicts) : lb_dicts[i] = lb_dicts[j] => i = j

\* a slot that has been the new baseline sits at the ring index that equals
\* the number of wrapper steps since it was last re-seeded
OffsetIsAge ==
    \A i \in 1 .. Len(lb_dicts) :
        last_baseline[lb_dicts[i]] > 0 => nsteps - last_baseline[lb_dicts[i]] = i - 1

\* the ring changes only in step_async, and then by one rotation to the right
RingRotates ==
    lb_dicts' # lb_dicts =>
        /\ phase' = "stepping"
        /\ Len(lb_dicts') = Len(lb_dicts)
        /\ lb_dicts'[1] = lb_dicts[Len(lb_dicts)]
        /\ \A i \in 2 .. Len(lb_dicts) : lb_dicts'[i] = lb_dicts[i - 1]

\* C2 (as stated): the rotation only reorders the slots, and the slots'
\* lookback offsets are always a permutation of 0..K (K = lookback_num).
C2_OffsetsUpToK == RingIsPermutation /\ RingIndices = 0 .. lookback_num

\* C2 (amended): every step_async only rotates the ring of the slots built at
\* construction (none dropped, duplicated or rebuilt; the slot at index i is the
\* one that was at index i-1, the last one moves to index 0), and the slots'
\* lookback offsets are always a permutation of 0..K-1.
C2_RotationKeepsSlots ==
    /\ [](RingIsPermutation /\ OffsetIsAge /\ RingIndices = 0 .. (lookback_num - 1))
    /\ [][RingRotates]_vars

C2_Witness ==
    /\ phase = "stepping"
    /\ lookback_num = 2
    /\ nsteps = 2
    /\ lb_dicts = << 1, 2 >>
    /\ last_baseline = << 2, 1 >>

\* C3: in every step_wait, for every lane, no slot whose ring index is at or
\* beyond the lane's episode length (after the done-zeroing) adds a term to the
\* lane's bonus; a lane of length 0 gets no term.
C3_EpisodeLengthGating ==
    phase = "waited" =>
        \A e \in Lanes :
            /\ \A i \in contrib[e] : i < ep_lens[e]
            /\ ep_lens[e] = 0 => contrib[e] = {}

\* a lane one step into its episode takes a term from slot 0 and none from slot 1
C3_Witness ==
    /\ phase = "waited"
    /\ lookback_num = 2
    /\ \E e \in Lanes : ep_lens[e] = 1 /\ contrib[e] = {0}
    /\ \E e \in Lanes : ep_lens[e] = 0 /\ _dones[e]

\* C4 (as stated): ep_lens[lane] always equals the number of wrapper steps
\* taken for the lane since its last episode reset (a done observed in
\* step_wait, or reset()); it is 0 right after either kind of reset.
C4_EpLensCountsSinceReset ==
    /\ \A e \in Lanes : ep_lens[e] = steps_since_reset[e]
    /\ phase = "reset" => \A e \in Lanes : ep_lens[e] = 0

\* the new baseline's pipeline takes the snapshot of the live state and the
\* live curried observation; the pipelines of the other slots keep their state
ReseedsOnlyBaseline ==
    phase' = "stepping" =>
        /\ current_states' = Some(venv.state)
        /\ \A e \in Lanes :
              /\ lb_venv'[lb_dicts'[1]].state[e] = venv.state[e]
              /\ lb_venv'[lb_dicts'[1]].curry_obs[e] = venv.curry_obs[e]
        /\ \A id \in DOMAIN lb_venv :
              id # lb_dicts'[1] => lb_venv'[id].state = lb_venv[id].state

\* C5: in every step_async exactly one slot, the one rotated to ring index 0,
\* is re-seeded: every lane of it gets the live simulator state snapshotted at
\* the start of the step_async and the live curried observation; no other
\* slot's simulator state is overwritten.
C5_ReseedsNewBaseline == [][ReseedsOnlyBaseline]_vars

\* the new baseline has taken a live state that differs from its own old one,
\* and the other slot holds a different state that was left alone
C5_Witness ==
    /\ phase = "stepping"
    /\ lookback_num = 2
    /\ nsteps = 2
    /\ lb_venv[lb_dicts[1]].state = current_states[1]
    /\ lb_venv[lb_dicts[2]].state # current_states[1]
    /\ lb_venv[lb_dicts[1]].curry_obs # lb_venv[lb_dicts[2]].curry_obs

\* the action our policy computed for lane e of a slot at the previous time
\* step: from the live reset observation and the initial state when the lane
\* was reset then, else from the slot's own observation of its last step_wait
ExpectedCachedAction(id, e) ==
    IF steps_since_reset[e] = 1
    THEN Predict(_obs[1], None, None).action[e]
    ELSE Act(GetTruncatedObs(lb_venv[id].last_step_obs[1])[e],
             IF recurrent THEN lb_data[id].state[1][e] ELSE 0)

\* C6: in every step_async every slot other than the new baseline is stepped
\* with the action cached for that slot: the one our policy computed from the
\* slot's own observation in the most recent step_wait, or the reset action.
C6_SlotsStepWithOwnCachedAction ==
    phase = "stepping" =>
        \A i \in 2 .. Len(lb_dicts) : \A e \in Lanes :
            lb_venv[lb_dicts[i]].pending[1].ours[e] = ExpectedCachedAction(lb_dicts[i], e)

\* a slot is stepped with an action that differs from the live one and from
\* the new baseline's, in a lane two steps into its episode
C6_Witness ==
    /\ phase = "stepping"
    /\ lookback_num = 2
    /\ \E e \in Lanes :
          /\ steps_since_reset[e] = 2
          /\ lb_venv[lb_dicts[2]].pending[1].ours[e] # _action[1][e]
          /\ lb_venv[lb_dicts[2]].pending[1].ours[e]
                # lb_venv[lb_dicts[1]].pending[1].ours[e]

\* C7: in every wrapper step each shadow slot gets exactly one step_async (in
\* step_async) and then exactly one step_wait (in step_wait); no slot is waited
\* for with nothing pending or submitted twice without a wait, for every pool
\* size.
C7_SubmitWaitProtocol ==
    \A id \in DOMAIN lb_venv :
        /\ lb_venv[id].protocol_ok
        /\ lb_venv[id].submits = nsteps
        /\ lb_venv[id].waits = IF phase = "stepping" THEN nsteps - 1 ELSE nsteps
        /\ lb_venv[id].pending # None <=> phase = "stepping"

C7_Witness ==
    /\ phase = "waited"
    /\ lookback_num = 2
    /\ nsteps = 2
    /\ \A id \in DOMAIN lb_venv : lb_venv[id].submits = 2 /\ lb_venv[id].waits = 2

\* C8: when the live environment reports done for a lane in step_wait, then on
\* return every slot's lane holds the live environment's fresh post-reset
\* simulator state and radius, and the lane's ep_lens is 0.
C8_DoneLaneRealigned ==
    phase = "waited" =>
        \A e \in Lanes : _dones[e] =>
            /\ ep_lens[e] = 0
            /\ \A id \in DOMAIN lb_venv :
                  /\ lb_venv[id].state[e] = venv.state[e]
                  /\ lb_venv[id].radius[e] = venv.radius[e]

\* one lane ended and was realigned while a slot's other lane, still running,
\* holds a state of its own
C8_Witness ==
    /\ phase = "waited"
    /\ lookback_num = 2
    /\ \E e, f \in Lanes :
          /\ _dones[e]
          /\ ~_dones[f]
          /\ \E id \in DOMAIN lb_venv : lb_venv[id].state[f] # venv.state[f]

\* what our policy predicts from the current live observation and the initial state
FreshPrediction == Predict(_obs[1], None, None)

\* lane e of a recurrent state (None for a stateless policy)
LaneOf(state, e) == IF state = None THEN None ELSE Some(state[1][e])

\* C9 (as stated): when the live environment reports done for a lane, every
\* slot's cached data for the lane is reset: action and recurrent state to the
\* prediction from the fresh observation and the initial state, reward to 0,
\* and the cached info of the finished episode is cleared.
C9_DoneLaneDataReset ==
    phase = "waited" =>
        \A e \in Lanes : _dones[e] =>
            \A id \in DOMAIN lb_data :
                /\ lb_data[id].action[1][e] = FreshPrediction.action[e]
                /\ LaneOf(lb_data[id].state, e) = LaneOf(FreshPrediction.state, e)
                /\ lb_data[id].reward[e] = 0
                /\ lb_data[id].info[e] = None

\* C10 (as stated): after a lane's episode is reset (done reported, or reset()
\* called) the recurrent state of the lane, in _state, in _new_lb_state at its
\* next prediction and in every slot's cached state, is the one derived from
\* the initial state, whatever it was before the reset.
C10_RecurrentStateFresh ==
    /\ phase = "reset" =>
          /\ _state = FreshPrediction.state
          /\ \A id \in DOMAIN lb_data : lb_data[id].state = FreshPrediction.state
    /\ phase = "waited" =>
          \A e \in Lanes : _dones[e] =>
              /\ LaneOf(_state, e) = LaneOf(FreshPrediction.state, e)
              /\ \A id \in DOMAIN lb_data :
                    LaneOf(lb_data[id].state, e) = LaneOf(FreshPrediction.state, e)
    /\ phase = "stepping" =>
          \A e \in Lanes : steps_since_reset[e] = 1 =>
              LaneOf(_new_lb_state, e) = LaneOf(FreshPrediction.state, e)

\* position of a call in the log of the last step_async
Pos(c) == CHOOSE i \in 1 .. Len(calls) : calls[i] = c
Once(c) == Cardinality({ i \in 1 .. Len(calls) : calls[i] = c }) = 1

C12_NoSharedBuffers ==
    /\ \A i, j \in DOMAIN buffers.lb :
          i # j =>
             /\ buffers.lb[i].action # NoBuf => buffers.lb[i].action # buffers.lb[j].action
             /\ buffers.lb[i].state # NoBuf => buffers.lb[i].state # buffers.lb[j].state
    /\ \A i \in DOMAIN buffers.lb :
          buffers.lb[i].state # NoBuf =>
             /\ buffers.lb[i].state # buffers._state
             /\ buffers.lb[i].state # buffers._new_lb_state

\* the reward the live environment gave lane e in the last step
LiveReward(e) == IF _dones[e] THEN Rew(Terminal) ELSE Rew(venv.state[e])

\* the number of valid slots of lane e: ring indices below its episode length
NumValid(e) == IF ep_lens[e] < Len(lb_dicts) THEN ep_lens[e] ELSE Len(lb_dicts)

\* sum over the first n slots of the ring of the distance between the live
\* victim's signal k and the slot's cached one, for lane e
RECURSIVE SumOfDistances(_, _, _)
SumOfDistances(k, e, n) ==
    IF n = 0 THEN 0
    ELSE Abs(returned[1].infos[e][1][k] - lb_data[lb_dicts[n]].info[e][1][k])
         + SumOfDistances(k, e, n - 1)

\* observations, dones and infos are handed on as the live environment gave them
ReturnsLiveStep ==
    /\ returned[1].obs = venv.last_step_obs[1]
    /\ returned[1].dones = _dones
    /\ \A e \in Lanes : DOMAIN returned[1].infos[e][1] = transparent_params

\* the signal the victim exposes
TransparentSignal == IF "ff" \in transparent_params THEN "ff" ELSE "obs"

\* C13 (as stated): the reward step_wait returns for a lane is the live reward
\* plus 0.05 times the sum, over exactly the lane's valid slots, of the
\* distance between the live victim's transparent signal and the slot's victim
\* signal; observations, dones and infos are the live environment's.
C13_RewardBonusSignal ==
    phase = "waited" =>
        /\ ReturnsLiveStep
        /\ \A e \in Lanes :
              returned[1].rewards[e] =
                  RewardScale * LiveReward(e)
                  + LookbackCoef * SumOfDistances(TransparentSignal, e, NumValid(e))

\* C13 (amended): when 'ff' is among transparent_params the reward returned
\* for a lane is the live reward plus 0.05 times the sum, over exactly the
\* lane's valid slots, of the distance between the live victim's 'ff'
\* activations and the slot's cached ones; when it is not, no term is added and
\* the reward is the live reward.  Observations, dones and infos are the live
\* environment's.
C13_RewardBonusFF ==
    phase = "waited" =>
        /\ ReturnsLiveStep
        /\ \A e \in Lanes :
              returned[1].rewards[e] =
                  RewardScale * LiveReward(e)
                  + (IF "ff" \in transparent_params
                     THEN LookbackCoef * SumOfDistances("ff", e, NumValid(e))
                     ELSE 0)

\* a lane with two valid slots whose second slot's victim has drifted from the
\* live one: the bonus is paid for it
C13_Witness ==
    /\ phase = "waited"
    /\ "ff" \in transparent_params
    /\ \E e \in Lanes :
          /\ NumValid(e) = 2
          /\ SumOfDistances("ff", e, 2) > SumOfDistances("ff", e, 1)
          /\ returned[1].rewards[e] > RewardScale * LiveReward(e)

\* a construction without transparent_params has loaded no policy, created no
\* slot and opened no debug file, and the wrapper is never usable
NothingBuiltWithoutParams ==
    ctor_args.transparent_params = None =>
        /\ phase \in {"unconstructed", "failed"}
        /\ ~policy_loaded
        /\ lb_dicts = << >> /\ lb_venv = << >> /\ lb_data = << >>
        /\ debug_files = 0
        /\ phase = "failed" => raised = "ValueError"

\* __init__ without transparent_params raises
ConstructionFails ==
    (phase = "unconstructed" /\ ctor_args.transparent_params = None /\ phase' # phase)
        => (phase' = "failed" /\ raised' = "ValueError")

\* C14: constructing the wrapper with transparent_params None fails with the
\* configuration error (ValueError), before any policy is loaded, any shadow
\* slot is created or any debug file is opened.
C14_FailsBeforeBuilding == []NothingBuiltWithoutParams /\ [][ConstructionFails]_vars

C14_Witness ==
    /\ phase = "failed"
    /\ raised = "ValueError"
    /\ ctor_args.transparent_params = None
    /\ ctor_args.num_lb = 2
    /\ lookback_num = 2

\* C15 (as stated): the recorder is transparent for every sequence of calls
\* and every configuration: step_async hands the caller's actions unchanged to
\* the wrapped environment, reset and step_wait return exactly what the wrapped
\* environment returned.
C15_RecorderTransparent ==
    /\ rec_out.call = "step_async" => rec_venv.pending = rec_out.given
    /\ rec_out.call \in {"reset", "step_wait"} =>
          /\ rec_out.raised = "none"
          /\ rec_out.returned = rec_out.from_env

\* the steps of an episode as recorded for agent a: one array per field
EpisodeArrays(a, steps) ==
    [k \in {"observations", "actions", "rewards", "ff"} |->
        [i \in 1 .. Len(steps) |-> steps[i][k][a]]]

\* the accumulator that holds the steps of a running episode for agent a
Accumulated(a, steps) == IF steps = << >> THEN EmptyDict ELSE EpisodeArrays(a, steps)

EpisodeReturns(d) ==
    IF "episode_returns" \in DOMAIN rec.full_traj_dicts[d]
    THEN rec.full_traj_dicts[d]["episode_returns"]
    ELSE << >>

\* C17 (as stated): for every recorded agent and every configuration of
\* env_keys, exactly one episode return is recorded per completed episode, and
\* it is the sum of the rewards the agent received in that lane during the
\* episode.
C17_EpisodeReturnIsRewardSum ==
    \A d \in DOMAIN rec.full_traj_dicts :
        /\ Len(EpisodeReturns(d)) = Len(rec_venv.finished)
        /\ \A i \in 1 .. Len(EpisodeReturns(d)) :
              EpisodeReturns(d)[i] =
                  << SumSeq(EpisodeArrays(rec.agent_indices[1][d],
                                          rec_venv.finished[i].steps)["rewards"]) >>

\* C18 (as stated): _filter_dict returns the dictionary verbatim for keys None;
\* for requested keys it does not fail, returns the dictionary restricted to
\* the requested keys that are present, warns when one is absent, and the
\* recording of the step goes on.
C18_FilterWarnsAndContinues ==
    rec_out.filter # None =>
        /\ rec_out.filter[1].ok
        /\ rec_phase # "failed"
        /\ rec_out.filter[1].keys = None =>
              rec_out.filter[1].res = rec_out.filter[1].present
        /\ rec_out.filter[1].keys # None =>
              /\ rec_out.filter[1].res =
                     rec_out.filter[1].keys[1] \cap rec_out.filter[1].present
              /\ rec_out.filter[1].keys[1] \ rec_out.filter[1].present # {}
                     => rec_out.filter[1].warned

\* the agents a recorder built with the given agent_indices records
ConfiguredAgents(arg) ==
    IF arg[1] = "none" THEN [i \in 1 .. NumAgents |-> i - 1] ELSE arg[2]

\* C19 (as stated): built with agent_indices None the recorder records every
\* agent, with an int that agent, with a list exactly the listed agents.
C19_RecordsConfiguredAgents ==
    rec_phase \notin {"absent", "unconstructed"} =>
        /\ rec.agent_indices = Some(ConfiguredAgents(rec_args.agent_indices))
        /\ DOMAIN rec.traj_dicts = 1 .. Len(ConfiguredAgents(rec_args.agent_indices))

\* C20 (as stated): once close() has been called on the wrapper, the wrapped
\* pipeline has been closed exactly once, and so has the session of the
\* embedded victim, if it has one.
C20_CloseClosesVictimAndPipeline ==
    emb_phase \in {"closed", "failed"} =>
        /\ emb_closes = 1
        /\ emb_victim.closes = (IF emb_victim.sess = "session" THEN 1 ELSE 0)

\* C23 (as stated): for a recurrent policy, the state step_async hands to the
\* new baseline, _new_lb_state after its prediction, equals the state the
\* wrapper tracks for the live policy, _state, whatever resets and steps came
\* before.
C23_BaselineStateTracksLive ==
    (phase = "stepping" /\ recurrent) =>
        /\ _new_lb_state = _state
        /\ lb_data[NewBaseline(lb_dicts)].state = _state

\* C29: once reset() has returned, every slot has been reset and, in every
\* lane, holds the simulator state and radius of the live environment after
\* its reset; every slot caches the action and recurrent state our policy
\* predicts from the initial observation with the initial state, reward 0 and
\* no info, whether reset() is the first call or follows steps.
C29_ResetAlignsEverySlot ==
    phase = "reset" =>
        \A id \in DOMAIN lb_venv :
            /\ lb_venv[id].last_step_obs = None
            /\ lb_venv[id].pending = None
            /\ lb_data[id].action = Some(FreshPrediction.action)
            /\ lb_data[id].state = FreshPrediction.state
            /\ \A e \in Lanes :
                  /\ lb_venv[id].state[e] = venv.state[e]
                  /\ lb_venv[id].radius[e] = venv.radius[e]
                  /\ lb_data[id].reward[e] = 0
                  /\ lb_data[id].info[e] = None

\* reset() called after a step, with two slots and a recurrent policy, the live
\* environment restarting in a state other than the one of construction
C29_Witness ==
    /\ phase = "reset"
    /\ nsteps >= 1
    /\ lookback_num = 2
    /\ recurrent
    /\ \E e \in Lanes : venv.state[e] # 0

\* what one slot holds for one lane: in its pipeline and in its cached data
LaneView(v, d, e) ==
    [state |-> v.state[e], radius |-> v.radius[e], curry_obs |-> v.curry_obs[e],
     action |-> d.action[1][e], rstate |-> LaneOf(d.state, e),
     reward |-> d.reward[e], info |-> d.info[e]]

\* a slot after the per-lane resets against the same slot as its step_wait and
\* _process_lb_data left it: the lanes that are not done and the cached info of
\* every lane are the same
SameButDoneLanes(v, d, slot, processed, dns) ==
    /\ v.pending = slot.pending
    /\ \A e \in Lanes :
          /\ ~dns[e] => LaneView(v, d, e) = LaneView(slot, processed, e)
          /\ d.info[e] = processed.info[e]

\* a slot after step_wait against what its own step_wait returned, a lane of
\* the slot that ended having restarted from the draw
SlotKeptButDoneLanes(id, res) ==
    SameButDoneLanes(lb_venv'[id], lb_data'[id], res.venv,
                     ProcessLbData(lb_data[id], res, _dones'), _dones')

\* the per-lane resets of a step_wait in which some lane is done change, in
\* every slot, the done lanes only
LaneResetFrame ==
    (phase' = "waited" /\ \E e \in Lanes : _dones'[e]) =>
        \E sdr \in ResetDraws : \A id \in DOMAIN lb_venv :
            SlotKeptButDoneLanes(id, VenvStepWait(lb_venv[id],
                                                 [e \in Lanes |-> sdr.state],
                                                 [e \in Lanes |-> sdr.radius]))

\* step_wait keeps the ring order and the ep_lens of the lanes that are not done
StepWaitKeepsRing ==
    phase' = "waited" =>
        /\ lb_dicts' = lb_dicts
        /\ \A e \in Lanes : ~_dones'[e] => ep_lens'[e] = ep_lens[e]

\* C30: when step_wait realigns the lanes reported done, it changes in every
\* slot only those lanes' simulator state, radius, curried observation and
\* cached action, recurrent state and reward; the other lanes' simulator state
\* and cached data, the ring order and the other lanes' ep_lens stay as they
\* were, with one or several lanes done, with and without a recurrent state.
C30_LaneResetTouchesOnlyDoneLanes == [][LaneResetFrame /\ StepWaitKeepsRing]_vars

\* one lane is done and the other is not; in some slot the lane that is not
\* done caches an action other than the prediction made for the reset
C30_Witness ==
    /\ phase = "waited"
    /\ \E e, f \in Lanes :
          /\ _dones[e] /\ ~_dones[f]
          /\ \E id \in DOMAIN lb_data :
                lb_data[id].action[1][f] # FreshPrediction.action[f]

\* several lanes done in the same step
C30_WitnessAllDone ==
    /\ phase = "waited"
    /\ lookback_num >= 1
    /\ \A e \in Lanes : _dones[e]

\* C28 (as stated): in the pipeline of every shadow slot, lane j was built
\* with its own index j, the indices 0 .. num_envs - 1 pairwise distinct, as
\* in the live pipeline.
C28_LanesBuiltWithOwnIndex ==
    phase \notin {"unconstructed", "failed"} =>
        \A id \in DOMAIN lb_venv :
            /\ \A e \in Lanes : lb_venv[id].built_with[e] = e
            /\ \A e, f \in Lanes :
                  e # f => lb_venv[id].built_with[e] # lb_venv[id].built_with[f]
            /\ lb_venv[id].built_with = venv.built_with

OriginalSlot(i, k) == IF i < k THEN i ELSE i + 1

\* C21: an environment of n agents with the victim curried at slot k has n - 1
\* slots; the action given for its slot i reaches the original slot i when
\* i < k and i + 1 when i >= k, the victim's action reaches slot k, and the
\* observation and reward returned for slot i are those of that original slot.
C21_CurryRenumbersSlots ==
    (pipe # << >> /\ pipe.victim_index # None) =>
        /\ PipeSlots(pipe) = pipe.agents - 1
        /\ pipe.last.inner_actions # None =>
              /\ Len(pipe.last.multi_actions[1]) = pipe.agents - 1
              /\ Len(pipe.last.inner_actions[1]) = pipe.agents
              /\ Len(pipe.last.multi_obs[1]) = pipe.agents - 1
              /\ Len(pipe.last.multi_rewards[1]) = pipe.agents - 1
              /\ pipe.last.inner_actions[1][pipe.victim_index[1] + 1]
                    = pipe.last.victim_action[1]
              /\ \A i \in 0 .. pipe.agents - 2 :
                    /\ pipe.last.inner_actions[1][OriginalSlot(i, pipe.victim_index[1]) + 1]
                          = pipe.last.multi_actions[1][i + 1]
                    /\ pipe.last.multi_obs[1][i + 1]
                          = pipe.last.inner_obs[1][OriginalSlot(i, pipe.victim_index[1]) + 1]
                    /\ pipe.last.multi_rewards[1][i + 1]
                          = pipe.last.inner_rewards[1][OriginalSlot(i, pipe.victim_index[1]) + 1]

\* a step through three agents with the middle one curried: a slot before and
\* a slot after the victim's
C21_Witness ==
    /\ pipe # << >>
    /\ pipe.agents = 3
    /\ pipe.victim_index = Some(1)
    /\ pipe.last.inner_actions # None
    /\ pipe.last.multi_actions[1][1] # pipe.last.multi_actions[1][2]

\* C22: FlattenSingletonVecEnv applied to an environment whose number of slots
\* is not 1 fails with a ConfigurationError and flattens nothing.
C22_FlattenNeedsOneSlot ==
    (pipe # << >> /\ pipe.flatten_on # None /\ pipe.flatten_on # Some(1)) =>
        /\ pipe.stage = "failed"
        /\ pipe.raised = "ConfigurationError"

\* flattening was tried on the two slots left of three agents
C22_Witness ==
    /\ pipe # << >>
    /\ pipe.flatten_on = Some(2)
    /\ pipe.agent_idx # None

\* any two consecutive checkpoints are at least checkpoint_interval apart
CheckpointsSpaced ==
    \A i \in 1 .. Len(training.checkpoints) :
        training.checkpoints[i]
            - (IF i = 1 THEN 0 ELSE training.checkpoints[i - 1])
          >= training.checkpoint_interval

\* C25 (as stated): the callback saves a checkpoint at every invocation at
\* which at least checkpoint_interval timesteps have passed since the last
\* checkpoint (or the start) and at no other, so that consecutive checkpoints
\* are never less than checkpoint_interval apart; it always returns True; the
\* final model is saved exactly once, after learning.
C25_CheckpointEveryInterval ==
    training # << >> =>
        /\ training.last_call # None =>
              /\ training.last_call[1].saved =
                    (training.last_call[1].step - training.last_call[1].since
                        >= training.checkpoint_interval)
              /\ training.last_call[1].returned
        /\ CheckpointsSpaced
        /\ training.final_saves =
              (IF training.stage \in {"learned", "closed"} THEN 1 ELSE 0)

\* C27: train() applies FlattenSingletonVecEnv only to an environment with
\* exactly one slot left: without a victim the environment has one agent and
\* nothing is curried; with a victim it has two agents, exactly the slot
\* victim_index is curried and our_idx is 1 - victim_index.
C27_FlattenOnOneSlot ==
    (training # << >> /\ training.flatten_on # None) =>
        /\ training.flatten_on = Some(1)
        /\ training.stage # "failed"
        /\ training.victim_type = "none" =>
              /\ training.env_agents = 1
              /\ training.curried = << >>
        /\ training.victim_type # "none" =>
              /\ training.env_agents = 2
              /\ training.curried = << training.victim_index >>
              /\ training.our_idx = Some(1 - training.victim_index)

\* a run with the victim in slot 1 has flattened its pipeline and is learning
C27_Witness ==
    /\ training # << >>
    /\ training.stage = "learning"
    /\ training.victim_type = "zoo"
    /\ training.victim_index = 1
    /\ training.flatten_on = Some(1)

\* number of steps of the episodes before episode i
RECURSIVE StepsBefore(_, _)
StepsBefore(episodes, i) ==
    IF i <= 1 THEN 0 ELSE StepsBefore(episodes, i - 1) + Len(episodes[i - 1])

\* flat index of the first step of every episode that has a step
FirstStepIndices(episodes) ==
    { StepsBefore(episodes, i) + 1 : i \in { j \in 1 .. Len(episodes) : episodes[j] # << >> } }

====
